---- MODULE Spec2Model ----
(***************************************************************************)
(* Framebuffer layer of the TREV4 dashboard: geometry probing              *)
(* (dashboard._get_fb_info, fb_driver.get_fb0_info / _init_fb), pixel      *)
(* encoding (dashboard._pack_16bit / _pack_32bit,                          *)
(* fb_driver.rgb_to_rgb565_bytes) and the two blit paths                   *)
(* (dashboard.blit_image_to_fb / draw_box_text, fb_driver.blit).           *)
(*                                                                         *)
(* Byte buffers are sequences of 0..255; byte offset `off` of the code is  *)
(* index off+1 here.  A raster is [w, h, px] with px the row-major         *)
(* sequence of <<r, g, b>> triples; a bitfield is <<offset, length>>.      *)
(***************************************************************************)
EXTENDS Integers, Sequences, FiniteSets, TLC

VARIABLES
    dev,        \* the display device: geometry, bitfields, sysfs stride attribute
    fbmem,      \* device memory, dev.stride * dev.yres bytes
    pc,         \* position of the (single-threaded) program
    img,        \* the raster of the call in progress (NoImg outside a call)
    info,       \* FBInfo probed by the call in progress (NoInfo otherwise)
    fd,         \* the device file object of the call in progress is open
    fbmap,      \* the mmap object of the call in progress is open
    payload,    \* encoder result of the call in progress
    err,        \* exception that ended the last call / step ("none" if none)
    errAt,      \* the step that raised it
    STRIDE,     \* fb_driver._STRIDE: [st, stride], st unloaded / failed / loaded
    life,       \* session lifecycle: Unopened, Probed, Ready, Closed
    prog        \* the program of this process: "dashboard" or "fb_driver"

vars == <<dev, fbmem, pc, img, info, fd, fbmap, payload, err, errAt, STRIDE,
          life, prog>>

----------------------------------------------------------------------------
(* Bounds of the model *)

\* rasters and devices are 1..MaxDim pixels wide and high
MaxDim == 2
\* a device row has 0..MaxPad bytes of alignment padding
MaxPad == 1

----------------------------------------------------------------------------
(* Integer bit arithmetic, as Python computes it on non-negative ints *)

RECURSIVE Pow2(_)
Pow2(n) == IF n = 0 THEN 1 ELSE 2 * Pow2(n - 1)

Shr(v, n) == v \div Pow2(n)
Shl(v, n) == v * Pow2(n)

RECURSIVE BitAnd(_, _)
BitAnd(a, b) ==
    IF a = 0 \/ b = 0 THEN 0
    ELSE (IF a % 2 = 1 /\ b % 2 = 1 THEN 1 ELSE 0) + 2 * BitAnd(a \div 2, b \div 2)

RECURSIVE BitOr(_, _)
BitOr(a, b) ==
    IF a = 0 THEN b
    ELSE IF b = 0 THEN a
    ELSE (IF a % 2 = 1 \/ b % 2 = 1 THEN 1 ELSE 0) + 2 * BitOr(a \div 2, b \div 2)

\* the len-bit field at bit offset off of word
Field(word, off, len) == Shr(word, off) % Pow2(len)

\* A 32-bit pixel word does not fit TLC's 32-bit integers: the words of the
\* 32-bit path are the sets of their one-bits (Python's ints are unbounded).
Bits(v) == {k \in 0..30 : Shr(v, k) % 2 = 1}
ShlBits(S, n) == {k + n : k \in S}
OrBits(S, T) == S \cup T
\* byte n (from the low end) of the word
ByteOf(S, n) ==
    LET bit(k) == IF (8 * n + k) \in S THEN Pow2(k) ELSE 0
    IN  bit(0) + bit(1) + bit(2) + bit(3) + bit(4) + bit(5) + bit(6) + bit(7)
\* the len-bit field at bit offset off
FieldBits(S, off, len) == {k - off : k \in {j \in S : j >= off /\ j < off + len}}

----------------------------------------------------------------------------
(* bytearray operations *)

Zeros(n) == [i \in 1..n |-> 0]

Min(a, b) == IF a < b THEN a ELSE b
Max(a, b) == IF a > b THEN a ELSE b

\* out[a:b] = data  (Python slice assignment: the slice is clipped to the
\* buffer, and the buffer grows or shrinks when len(data) differs from it)
SetSlice(out, a, b, data) ==
    LET lo == Min(a, Len(out))
        hi == Max(Min(b, Len(out)), lo)
    IN  SubSeq(out, 1, lo) \o data \o SubSeq(out, hi + 1, Len(out))

\* struct.pack("<I", pix), which raises struct.error when pix >= 2**32
LE32(S) == <<ByteOf(S, 0), ByteOf(S, 1), ByteOf(S, 2), ByteOf(S, 3)>>
FitsU32(S) == \A k \in S : k < 32
\* the bytes of a uint16 array element (tobytes() on the little-endian target)
LE16(pix) == <<pix % 256, Shr(pix, 8) % 256>>

\* the little-endian word of n bytes stored at byte offset off
RECURSIVE WordAt(_, _, _)
WordAt(buf, off, n) ==
    IF n = 0 THEN 0 ELSE buf[off + 1] + 256 * WordAt(buf, off + 1, n - 1)

Ok(data) == [err |-> "none", data |-> data]
Raise(e) == [err |-> e, data |-> <<>>]

----------------------------------------------------------------------------
(* Rasters *)

Raster(w, h, px) == [w |-> w, h |-> h, px |-> px]

\* px[x, y]
PixelAt(im, x, y) == im.px[y * im.w + x + 1]

\* Image.resize((W, H), Image.NEAREST): the source pixel under the centre of
\* each destination pixel
Resize(im, W, H) ==
    Raster(W, H,
        [k \in 1..(W * H) |->
            LET x == (k - 1) % W
                y == (k - 1) \div W
            IN  PixelAt(im, ((2 * x + 1) * im.w) \div (2 * W),
                            ((2 * y + 1) * im.h) \div (2 * H))])

----------------------------------------------------------------------------
(* dashboard.py: the encoders *)

FBInfo(xres, yres, bpp, stride, r, g, b, a) ==
    [xres |-> xres, yres |-> yres, bpp |-> bpp, stride |-> stride,
     r |-> r, g |-> g, b |-> b, a |-> a]

\* Pack16Pixel with the offsets of RGB565 wired in instead of the detected ones
Pack16PixelFixedOffsets(p, i) ==
    LET rv == BitAnd(Shr(p[1], 8 - i.r[2]), Shl(1, i.r[2]) - 1)
        gv == BitAnd(Shr(p[2], 8 - i.g[2]), Shl(1, i.g[2]) - 1)
        bv == BitAnd(Shr(p[3], 8 - i.b[2]), Shl(1, i.b[2]) - 1)
    IN  BitOr(BitOr(Shl(rv, 11), Shl(gv, 5)), Shl(bv, 0))

\* Pack16Pixel keeping the low bits of each channel instead of the high ones
Pack16PixelLowBits(p, i) ==
    LET rv == BitAnd(p[1], Shl(1, i.r[2]) - 1)
        gv == BitAnd(p[2], Shl(1, i.g[2]) - 1)
        bv == BitAnd(p[3], Shl(1, i.b[2]) - 1)
    IN  BitOr(BitOr(Shl(rv, i.r[1]), Shl(gv, i.g[1])), Shl(bv, i.b[1]))

\* one pixel of the 16-bit loop: the word of lines 104-108
Pack16Pixel(p, i) ==
    LET rv == BitAnd(Shr(p[1], 8 - i.r[2]), Shl(1, i.r[2]) - 1)
        gv == BitAnd(Shr(p[2], 8 - i.g[2]), Shl(1, i.g[2]) - 1)
        bv == BitAnd(Shr(p[3], 8 - i.b[2]), Shl(1, i.b[2]) - 1)
    IN  BitOr(BitOr(Shl(rv, i.r[1]), Shl(gv, i.g[1])), Shl(bv, i.b[1]))

\* the y/x loops of _pack_16bit from pixel k on, in row-major order
RECURSIVE Pack16Loop(_, _, _, _)
Pack16Loop(out, im, i, k) ==
    IF k = im.w * im.h THEN Ok(out)
    ELSE LET x   == k % im.w
             y   == k \div im.w
             pix == Pack16Pixel(PixelAt(im, x, y), i)
             off == y * i.stride + x * 2
         IN  IF off + 1 >= Len(out) THEN Raise("IndexError")
             ELSE Pack16Loop([out EXCEPT ![off + 1] = BitAnd(pix, 255),
                                         ![off + 2] = BitAnd(Shr(pix, 8), 255)],
                             im, i, k + 1)

\* PackAlloc sized by the tight row (width * bytes per pixel), not the stride
PackAllocTight(im, i) == Zeros(im.w * (i.bpp \div 8) * im.h)

\* the buffer _pack_16bit / _pack_32bit allocate
PackAlloc(im, i) == Zeros(i.stride * im.h)

\* _pack_16bit packing whatever lengths the device reports
_pack_16bit_AnyLengths(im, i) == Pack16Loop(PackAlloc(im, i), im, i, 0)

_pack_16bit(im, i) ==
    IF i.r[2] = 5 /\ i.g[2] = 6 /\ i.b[2] = 5
    THEN Pack16Loop(PackAlloc(im, i), im, i, 0)
    ELSE Raise("UnsupportedBitfield")

\* Pack32Pixel leaving the alpha field zero
Pack32PixelNoAlpha(p, i) ==
    OrBits(OrBits(ShlBits(Bits(p[1]), i.r[1]), ShlBits(Bits(p[2]), i.g[1])),
           ShlBits(Bits(p[3]), i.b[1]))

\* one pixel of the 32-bit loop: the word of lines 141-143
Pack32Pixel(p, i) ==
    LET a_len == i.a[2]
        a_val == IF a_len > 0 THEN 0..(a_len - 1) ELSE {}
        rgb   == OrBits(OrBits(ShlBits(Bits(p[1]), i.r[1]), ShlBits(Bits(p[2]), i.g[1])),
                        ShlBits(Bits(p[3]), i.b[1]))
    IN  IF a_len # 0 THEN OrBits(rgb, ShlBits(a_val, i.a[1])) ELSE rgb

RECURSIVE Pack32Loop(_, _, _, _)
Pack32Loop(out, im, i, k) ==
    IF k = im.w * im.h THEN Ok(out)
    ELSE LET x   == k % im.w
             y   == k \div im.w
             pix == Pack32Pixel(PixelAt(im, x, y), i)
             off == y * i.stride + x * 4
         IN  IF ~FitsU32(pix) THEN Raise("StructError")
             ELSE Pack32Loop(SetSlice(out, off, off + 4, LE32(pix)), im, i, k + 1)

_pack_32bit(im, i) ==
    IF i.r[2] = 8 /\ i.g[2] = 8 /\ i.b[2] = 8
    THEN Pack32Loop(PackAlloc(im, i), im, i, 0)
    ELSE Raise("UnsupportedBitfield")

\* the bpp dispatch of blit_image_to_fb
Encode(im, i) ==
    IF i.bpp = 16 THEN _pack_16bit(im, i)
    ELSE IF i.bpp = 32 THEN _pack_32bit(im, i)
    ELSE Raise("UnsupportedDepth")

----------------------------------------------------------------------------
(* fb_driver.py: the encoder *)

\* one element of the rgb565 array, a uint16
Rgb565Pixel(p) ==
    BitOr(BitOr(Shl(Shr(p[1], 3), 11) % 65536, Shl(Shr(p[2], 2), 5) % 65536),
          Shr(p[3], 3))

\* rgb565[y, :w].tobytes()
RECURSIVE Rgb565Row(_, _, _)
Rgb565Row(im, y, x) ==
    IF x = im.w THEN <<>>
    ELSE LE16(Rgb565Pixel(PixelAt(im, x, y))) \o Rgb565Row(im, y, x + 1)

RECURSIVE Rgb565Loop(_, _, _, _)
Rgb565Loop(out, im, stride, y) ==
    IF y = im.h THEN out
    ELSE LET row_start == y * stride
         IN  Rgb565Loop(SetSlice(out, row_start, row_start + im.w * 2,
                                 Rgb565Row(im, y, 0)),
                        im, stride, y + 1)

rgb_to_rgb565_bytes(im, stride) ==
    Ok(Rgb565Loop(Zeros(stride * im.h), im, stride, 0))

----------------------------------------------------------------------------
(* The display device *)

NoInfo == [bpp |-> 0]

\* bitfield layouts a device may report: <<bpp, r, g, b, a>>
Layouts ==
    { <<16, <<11, 5>>, <<5, 6>>, <<0, 5>>,  <<0, 0>>>>,     \* RGB565
      <<16, <<0, 5>>,  <<5, 6>>, <<11, 5>>, <<0, 0>>>>,     \* BGR565
      <<16, <<10, 5>>, <<5, 5>>, <<0, 5>>,  <<15, 1>>>>,    \* ARGB1555
      <<24, <<16, 8>>, <<8, 8>>, <<0, 8>>,  <<0, 0>>>>,     \* RGB888
      <<32, <<16, 8>>, <<8, 8>>, <<0, 8>>,  <<0, 0>>>>,     \* XRGB8888
      <<32, <<16, 8>>, <<8, 8>>, <<0, 8>>,  <<24, 8>>>>,    \* ARGB8888
      <<32, <<20, 10>>, <<10, 10>>, <<0, 10>>, <<30, 2>>>> } \* ARGB2101010

Dims == 1..MaxDim

Devices ==
    { FBInfo(x, y, l[1], x * (l[1] \div 8) + pad, l[2], l[3], l[4], l[5]) :
        x \in Dims, y \in Dims, l \in Layouts, pad \in 0..MaxPad }

\* the two shapes the encoders accept
Supported(i) ==
    \/ i.bpp = 16 /\ i.r[2] = 5 /\ i.g[2] = 6 /\ i.b[2] = 5
    \/ i.bpp = 32 /\ i.r[2] = 8 /\ i.g[2] = 8 /\ i.b[2] = 8

\* rasters the renderer hands to a blit call
SpecPixels == << <<255, 0, 0>>, <<0, 255, 0>>, <<18, 52, 86>> >>

PatternRaster(w, h) ==
    Raster(w, h, [k \in 1..(w * h) |-> SpecPixels[((k - 1) % 3) + 1]])

Rasters == { PatternRaster(w, h) : w \in Dims, h \in Dims }

----------------------------------------------------------------------------
(* Probing *)

\* _get_fb_info validating the depth while probing
_get_fb_info_Validating(d) ==
    IF d.bpp \in {16, 32}
    THEN Ok(FBInfo(d.xres, d.yres, d.bpp, d.stride, d.r, d.g, d.b, d.a))
    ELSE Raise("UnsupportedDepth")

\* dashboard._get_fb_info: the two ioctls, unpacked into an FBInfo
_get_fb_info(d) ==
    Ok(FBInfo(d.xres, d.yres, d.bpp, d.stride, d.r, d.g, d.b, d.a))

\* fb_driver.get_fb0_info: <<xres, yres, bpp, stride>> from the sysfs attributes;
\* strideExists: the optional "stride" attribute is present
get_fb0_info(d, strideExists) ==
    Ok(<<d.xres, d.yres, d.bpp,
         IF strideExists THEN d.stride ELSE d.xres * (d.bpp \div 8)>>)

\* fb_driver._init_fb on the probed tuple: the stride, or the error raised
InitFbCheck(t) ==
    IF t[3] # 16 THEN Raise("UnsupportedDepth") ELSE Ok(t[4])

----------------------------------------------------------------------------
(* The program *)

\* the fb_driver module: not imported, import failed, or _STRIDE set
ModuleState(st, stride) == [st |-> st, stride |-> stride]

NoImg == Raster(0, 0, <<>>)

\* dashboard.py and fb_driver.py do not import each other: a process runs the
\* dashboard script or a program built on fb_driver
Init ==
    /\ dev \in Devices
    /\ prog \in {"dashboard", "fb_driver"}
    /\ fbmem = Zeros(dev.stride * dev.yres)
    /\ pc = "idle"
    /\ img = NoImg
    /\ info = NoInfo
    /\ fd = FALSE
    /\ fbmap = FALSE
    /\ payload = <<>>
    /\ err = "none"
    /\ errAt = "none"
    /\ STRIDE = ModuleState("unloaded", 0)
    /\ life = "Unopened"

\* Leave without the try/finally: the mapping is closed on the normal path only
LeaveNoFinally(e, at) ==
    /\ err' = e
    /\ errAt' = at
    /\ fd' = FALSE
    /\ fbmap' = IF e = "none" THEN FALSE ELSE fbmap
    /\ life' = IF fd THEN "Closed" ELSE life
    /\ img' = NoImg
    /\ info' = NoInfo
    /\ payload' = <<>>
    /\ pc' = "idle"

\* a call ends, by return (e = "none") or by exception e raised at step `at`:
\* the with block closes the file, the finally clause closes the mapping, the
\* call's locals are gone
Leave(e, at) ==
    /\ err' = e
    /\ errAt' = at
    /\ fd' = FALSE
    /\ fbmap' = FALSE
    /\ life' = IF fd THEN "Closed" ELSE life
    /\ img' = NoImg
    /\ info' = NoInfo
    /\ payload' = <<>>
    /\ pc' = "idle"

\* blit_image_to_fb(img): entry (an RGB raster needs no convert)
blit_image_to_fb_call ==
    /\ pc = "idle"
    /\ prog = "dashboard"
    /\ \E im \in Rasters : img' = im
    /\ err' = "none"
    /\ errAt' = "none"
    /\ pc' = "d_open"
    /\ UNCHANGED <<dev, prog, fbmem, info, payload, fd, fbmap, STRIDE, life>>

\* open(fb_path, "r+b", buffering=0)
blit_image_to_fb_open ==
    /\ pc = "d_open"
    /\ \/ /\ fd' = TRUE
          /\ pc' = "d_probe"
          /\ UNCHANGED <<err, errAt, fbmap, life, img, info, payload>>
       \/ Leave("OSError", "open")
    /\ UNCHANGED <<dev, prog, fbmem, STRIDE>>

\* blit_image_to_fb_probe going on to the mapping without the ioctls
blit_image_to_fb_probe_Skipped ==
    /\ pc = "d_probe"
    /\ pc' = "d_map"
    /\ UNCHANGED <<err, errAt, fd, fbmap, img, payload, info, life>>
    /\ UNCHANGED <<dev, prog, fbmem, STRIDE>>

\* info = _get_fb_info(fb.fileno())
blit_image_to_fb_probe ==
    /\ pc = "d_probe"
    /\ \/ LET res == _get_fb_info(dev)
          IN  IF res.err = "none"
              THEN /\ info' = res.data
                   /\ life' = "Probed"
                   /\ pc' = "d_map"
                   /\ UNCHANGED <<err, errAt, fd, fbmap, img, payload>>
              ELSE Leave(res.err, "probe")
       \/ Leave("OSError", "probe")
    /\ UNCHANGED <<dev, prog, fbmem, STRIDE>>

\* resize to the probed resolution if needed, then mmap stride*yres bytes
blit_image_to_fb_map ==
    /\ pc = "d_map"
    /\ \/ /\ img' = IF <<img.w, img.h>> # <<info.xres, info.yres>>
                    THEN Resize(img, info.xres, info.yres)
                    ELSE img
          /\ fbmap' = TRUE
          /\ life' = "Ready"
          /\ pc' = "d_encode"
          /\ UNCHANGED <<err, errAt, fd, info, payload>>
       \/ Leave("OSError", "mmap")
    /\ UNCHANGED <<dev, prog, fbmem, STRIDE>>

\* the try block up to the encoder's return
blit_image_to_fb_encode ==
    /\ pc = "d_encode"
    /\ LET res == Encode(img, info)
       IN  IF res.err = "none"
           THEN /\ payload' = res.data
                /\ pc' = "d_write"
                /\ UNCHANGED <<err, errAt, fd, fbmap, life, img, info>>
           ELSE Leave(res.err, "encode")
    /\ UNCHANGED <<dev, prog, fbmem, STRIDE>>

\* fbmap.seek(0); fbmap.write(payload): mmap.write raises ValueError, writing
\* nothing, when the data does not fit the mapping
MmapWrite(mem, size, data) ==
    IF Len(data) > size THEN Raise("ValueError")
    ELSE Ok(SetSlice(mem, 0, Len(data), data))

\* the write, the finally clause, the end of the with block, the return
blit_image_to_fb_write ==
    /\ pc = "d_write"
    /\ LET res == MmapWrite(fbmem, info.stride * info.yres, payload)
       IN  IF res.err = "none"
           THEN /\ fbmem' = res.data
                /\ Leave("none", "none")
           ELSE /\ Leave(res.err, "write")
                /\ UNCHANGED fbmem
    /\ UNCHANGED <<dev, prog, STRIDE>>

\* draw_box_text(): entry
draw_box_text_call ==
    /\ pc = "idle"
    /\ prog = "dashboard"
    /\ err' = "none"
    /\ errAt' = "none"
    /\ pc' = "t_open"
    /\ UNCHANGED <<dev, prog, fbmem, img, info, payload, fd, fbmap, STRIDE, life>>

draw_box_text_open ==
    /\ pc = "t_open"
    /\ \/ /\ fd' = TRUE
          /\ pc' = "t_probe"
          /\ UNCHANGED <<err, errAt, fbmap, life, img, info, payload>>
       \/ Leave("OSError", "open")
    /\ UNCHANGED <<dev, prog, fbmem, STRIDE>>

draw_box_text_probe ==
    /\ pc = "t_probe"
    /\ \/ LET res == _get_fb_info(dev)
          IN  IF res.err = "none"
              THEN /\ info' = res.data
                   /\ life' = "Probed"
                   /\ pc' = "t_render"
                   /\ UNCHANGED <<err, errAt, fd, fbmap, img, payload>>
              ELSE Leave(res.err, "probe")
       \/ Leave("OSError", "probe")
    /\ UNCHANGED <<dev, prog, fbmem, STRIDE>>

\* the with block ends (the file closes), the full-screen image is drawn and
\* handed to blit_image_to_fb
draw_box_text_render ==
    /\ pc = "t_render"
    /\ fd' = FALSE
    /\ life' = "Closed"
    /\ img' = PatternRaster(info.xres, info.yres)
    /\ info' = NoInfo
    /\ pc' = "d_open"
    /\ UNCHANGED <<dev, prog, fbmem, fbmap, payload, err, errAt, STRIDE>>

\* import fb_driver: _STRIDE = _init_fb()
_init_fb ==
    /\ pc = "idle"
    /\ prog = "fb_driver"
    /\ STRIDE.st = "unloaded"
    /\ \/ \E strideExists \in BOOLEAN :
            LET got == get_fb0_info(dev, strideExists)
                res == IF got.err = "none" THEN InitFbCheck(got.data) ELSE got
            IN  /\ STRIDE' = IF res.err = "none" THEN ModuleState("loaded", res.data)
                                                 ELSE ModuleState("failed", 0)
                /\ err' = res.err
                /\ errAt' = IF got.err # "none" THEN "probe"
                            ELSE IF res.err # "none" THEN "_init_fb" ELSE "none"
                /\ life' = IF got.err = "none" THEN "Probed" ELSE life
       \/ /\ STRIDE' = ModuleState("failed", 0)
          /\ err' = "OSError"
          /\ errAt' = "probe"
          /\ UNCHANGED life
    /\ UNCHANGED <<dev, prog, fbmem, pc, img, info, fd, fbmap, payload>>

\* fb_driver.blit(img): entry and payload = rgb_to_rgb565_bytes(img, _STRIDE)
blit_call ==
    /\ pc = "idle"
    /\ prog = "fb_driver"
    /\ STRIDE.st = "loaded"
    /\ \E im \in Rasters :
         LET res == rgb_to_rgb565_bytes(im, STRIDE.stride)
         IN  /\ img' = im
             /\ payload' = res.data
    /\ err' = "none"
    /\ errAt' = "none"
    /\ pc' = "f_open"
    /\ UNCHANGED <<dev, prog, fbmem, info, fd, fbmap, STRIDE, life>>

\* open(FB0, "wb", buffering=0)
blit_open ==
    /\ pc = "f_open"
    /\ \/ /\ fd' = TRUE
          /\ life' = "Ready"
          /\ pc' = "f_write"
          /\ UNCHANGED <<err, errAt, fbmap, img, info, payload>>
       \/ Leave("OSError", "open")
    /\ UNCHANGED <<dev, prog, fbmem, STRIDE>>

\* an unbuffered write to the device file at offset 0: the device stores what
\* fits its memory
DeviceWrite(mem, data) ==
    LET n == Min(Len(data), Len(mem))
    IN  SetSlice(mem, 0, n, SubSeq(data, 1, n))

\* fb.write(payload) and the end of the with block
blit_write ==
    /\ pc = "f_write"
    /\ fbmem' = DeviceWrite(fbmem, payload)
    /\ Leave("none", "none")
    /\ UNCHANGED <<dev, prog, STRIDE>>

Next ==
    \/ blit_image_to_fb_call
    \/ blit_image_to_fb_open
    \/ blit_image_to_fb_probe
    \/ blit_image_to_fb_map
    \/ blit_image_to_fb_encode
    \/ blit_image_to_fb_write
    \/ draw_box_text_call
    \/ draw_box_text_open
    \/ draw_box_text_probe
    \/ draw_box_text_render
    \/ _init_fb
    \/ blit_call
    \/ blit_open
    \/ blit_write

Spec == Init /\ [][Next]_vars

----------------------------------------------------------------------------
(* The encoders alone, on full-range rasters and every supported layout *)

\* the (5,6,5) fields in each of their six orders, low field first
Layouts565 ==
    { <<16, <<11, 5>>, <<5, 6>>,  <<0, 5>>,  <<0, 0>>>>,
      <<16, <<0, 5>>,  <<5, 6>>,  <<11, 5>>, <<0, 0>>>>,
      <<16, <<6, 5>>,  <<0, 6>>,  <<11, 5>>, <<0, 0>>>>,
      <<16, <<11, 5>>, <<0, 6>>,  <<6, 5>>,  <<0, 0>>>>,
      <<16, <<0, 5>>,  <<10, 6>>, <<5, 5>>,  <<0, 0>>>>,
      <<16, <<5, 5>>,  <<10, 6>>, <<0, 5>>,  <<0, 0>>>> }

\* 8/8/8 layouts, with and without an alpha field
Layouts888 ==
    { <<32, <<16, 8>>, <<8, 8>>,  <<0, 8>>,  <<0, 0>>>>,    \* XRGB8888
      <<32, <<16, 8>>, <<8, 8>>,  <<0, 8>>,  <<24, 8>>>>,   \* ARGB8888
      <<32, <<0, 8>>,  <<8, 8>>,  <<16, 8>>, <<0, 0>>>>,    \* XBGR8888
      <<32, <<0, 8>>,  <<8, 8>>,  <<16, 8>>, <<24, 8>>>>,   \* ABGR8888
      <<32, <<24, 8>>, <<16, 8>>, <<8, 8>>,  <<0, 8>>>>,    \* RGBA8888
      <<32, <<8, 8>>,  <<16, 8>>, <<24, 8>>, <<0, 8>>>> }   \* BGRA8888

EncInfos ==
    { FBInfo(x, y, l[1], x * (l[1] \div 8) + pad, l[2], l[3], l[4], l[5]) :
        x \in Dims, y \in Dims, l \in Layouts565 \cup Layouts888, pad \in 0..MaxPad }

\* pixel i of the full-range sweep: each channel takes every value 0..255
TestPixel(i) == <<i % 256, 255 - (i % 256), (3 * i) % 256>>

SweepRaster(w, h, seed) ==
    Raster(w, h, [k \in 1..(w * h) |-> TestPixel(seed + k - 1)])

FillRaster(w, h, p) == Raster(w, h, [k \in 1..(w * h) |-> p])

\* the w x h rasters: sweeps that together cover pixels 0..255, and solid fills
EncRasters(w, h) ==
    { SweepRaster(w, h, n * w * h) : n \in 0..(255 \div (w * h)) }
    \cup { FillRaster(w, h, p) : p \in {<<255, 0, 0>>, <<0, 255, 0>>, <<255, 255, 255>>} }

InitEnc ==
    /\ info \in EncInfos
    /\ img \in EncRasters(info.xres, info.yres)
    /\ dev = info
    /\ prog = "encoder"
    /\ fbmem = <<>>
    /\ pc = "enc"
    /\ fd = FALSE
    /\ fbmap = FALSE
    /\ payload = <<>>
    /\ err = "none"
    /\ errAt = "none"
    /\ STRIDE = ModuleState("unloaded", 0)
    /\ life = "Probed"

Returned(res, at) ==
    /\ payload' = res.data
    /\ err' = res.err
    /\ pc' = at
    /\ UNCHANGED <<dev, prog, fbmem, img, info, fd, fbmap, errAt, STRIDE, life>>

Enc_pack_16bit ==
    /\ pc = "enc"
    /\ info.bpp = 16
    /\ Returned(_pack_16bit(img, info), "e16")

Enc_pack_32bit ==
    /\ pc = "enc"
    /\ info.bpp = 32
    /\ Returned(_pack_32bit(img, info), "e32")

\* fb_driver's encoder takes the stride only: its layout is the RGB565 the
\* attribute files cannot tell otherwise
Enc_rgb_to_rgb565_bytes ==
    /\ pc = "enc"
    /\ info.bpp = 16
    /\ <<info.r, info.g, info.b>> = << <<11, 5>>, <<5, 6>>, <<0, 5>> >>
    /\ Returned(rgb_to_rgb565_bytes(img, info.stride), "e565")

NextEnc ==
    \/ Enc_pack_16bit
    \/ Enc_pack_32bit
    \/ Enc_rgb_to_rgb565_bytes

SpecEnc == InitEnc /\ [][NextEnc]_vars

----------------------------------------------------------------------------
(* Properties *)

UnsupportedErrors == {"UnsupportedDepth", "UnsupportedBitfield"}

Encoded == pc \in {"e16", "e32", "e565"}

\* the pixel coordinates of the raster in hand
Coords == {<<x, y>> \in (0..(img.w - 1)) \X (0..(img.h - 1)) : TRUE}

\* C1: every encoder returns, for a supported FBInfo and a raster of the
\* device's size, a buffer of exactly stride*height bytes, also when the stride
\* exceeds width * bytes per pixel.
C1_EncodedLength ==
    Encoded => /\ err = "none"
               /\ Len(payload) = info.stride * info.yres

C1_Witness ==
    /\ Encoded
    /\ info.stride > info.xres * (info.bpp \div 8)
    /\ info.yres > 1
    /\ Len(payload) = info.stride * info.yres

\* C2: a device write of a payload whose length is not stride*height fails and
\* leaves device memory unchanged, on both blit paths.
C2_SizeMismatchRejected ==
    [][(pc \in {"d_write", "f_write"} /\ Len(payload) # dev.stride * dev.yres)
          => (fbmem' = fbmem /\ err' # "none")]_vars

\* C3: a raster whose size differs from the device's resolution is rejected by
\* the encoder: no encoder returns a payload for such a raster.
C3_MismatchedRasterRejected ==
    (pc \in {"d_write", "f_open", "f_write"})
        => <<img.w, img.h>> = <<dev.xres, dev.yres>>

Word565(p, i) ==
    BitOr(BitOr(Shl(Shr(p[1], 3), i.r[1]), Shl(Shr(p[2], 2), i.g[1])),
          Shl(Shr(p[3], 3), i.b[1]))

\* C5: on the 16-bit path every pixel (x, y) is stored at byte offset
\* y*stride + x*2 as the word (r>>3)<<R.offset | (g>>2)<<G.offset |
\* (b>>3)<<B.offset, low byte first; with R=(11,5), G=(5,6), B=(0,5) a pixel
\* (255,0,0) at (0,0) gives bytes 0x00, 0xF8 at offset 0.
C5_Word16 ==
    (pc \in {"e16", "e565"}) =>
        /\ \A c \in Coords :
             LET off  == c[2] * info.stride + c[1] * 2
                 word == Word565(PixelAt(img, c[1], c[2]), info)
             IN  /\ payload[off + 1] = word % 256
                 /\ payload[off + 2] = word \div 256
        /\ (/\ <<info.r, info.g, info.b>> = << <<11, 5>>, <<5, 6>>, <<0, 5>> >>
            /\ PixelAt(img, 0, 0) = <<255, 0, 0>>)
              => SubSeq(payload, 1, 2) = <<0, 248>>

C5_Witness ==
    /\ pc = "e16"
    /\ <<info.r, info.g, info.b>> = << <<11, 5>>, <<5, 6>>, <<0, 5>> >>
    /\ PixelAt(img, 0, 0) = <<255, 0, 0>>
    /\ SubSeq(payload, 1, 2) = <<0, 248>>
    /\ info.stride > info.xres * 2

\* the one-bits of the little-endian u32 stored at byte offset off
StoredBits(buf, off) ==
    UNION { ShlBits(Bits(buf[off + n + 1]), 8 * n) : n \in 0..3 }

\* C6: on the 32-bit 8/8/8 path the 8 bits at R.offset, G.offset, B.offset of
\* the little-endian u32 at y*stride + x*4 are exactly r, g, b, and every bit of
\* a present alpha field is 1; with R=(16,8), G=(8,8), B=(0,8), A=(24,8) a
\* pixel (0,255,0) gives bytes 00,FF,00,FF.
C6_Lossless32 ==
    (pc = "e32") =>
        /\ err = "none"
        /\ \A c \in Coords :
             LET p == PixelAt(img, c[1], c[2])
                 S == StoredBits(payload, c[2] * info.stride + c[1] * 4)
             IN  /\ FieldBits(S, info.r[1], 8) = Bits(p[1])
                 /\ FieldBits(S, info.g[1], 8) = Bits(p[2])
                 /\ FieldBits(S, info.b[1], 8) = Bits(p[3])
                 /\ info.a[2] > 0 =>
                       FieldBits(S, info.a[1], info.a[2]) = 0..(info.a[2] - 1)
        /\ (/\ <<info.r, info.g, info.b, info.a>>
                  = << <<16, 8>>, <<8, 8>>, <<0, 8>>, <<24, 8>> >>
            /\ PixelAt(img, 0, 0) = <<0, 255, 0>>)
              => SubSeq(payload, 1, 4) = <<0, 255, 0, 255>>

C6_Witness ==
    /\ pc = "e32"
    /\ <<info.r, info.g, info.b, info.a>> = << <<16, 8>>, <<8, 8>>, <<0, 8>>, <<24, 8>> >>
    /\ PixelAt(img, 0, 0) = <<0, 255, 0>>
    /\ SubSeq(payload, 1, 4) = <<0, 255, 0, 255>>

\* a channel decoded from its field: the field's bits shifted back to 8 bits
Decode(word, f) == Shl(Field(word, f[1], f[2]), 8 - f[2])

\* the quantization bound of a field of len bits
Quantum(len) == Pow2(8 - len) - 1

\* C7: for every order of the (5,6,5) fields, decoding the stored word of each
\* pixel of a full-range raster gives back each channel within 7 (5-bit
\* fields) or 3 (the 6-bit field).
C7_Quantization ==
    (pc \in {"e16", "e565"}) =>
        \A c \in Coords :
            LET p == PixelAt(img, c[1], c[2])
                w == WordAt(payload, c[2] * info.stride + c[1] * 2, 2)
                d(v, f) == v - Decode(w, f)
            IN  /\ d(p[1], info.r) \in 0..7
                /\ d(p[2], info.g) \in 0..3
                /\ d(p[3], info.b) \in 0..7

C7_Witness ==
    /\ pc = "e16"
    /\ info.r[1] = 0
    /\ \E c \in Coords :
         LET p == PixelAt(img, c[1], c[2])
             w == WordAt(payload, c[2] * info.stride + c[1] * 2, 2)
         IN  /\ p[1] = 255
             /\ p[1] - Decode(w, info.r) = Quantum(info.r[2])
             /\ p[2] - Decode(w, info.g) = 0

\* C8 as stated: the device becomes Ready (mapping acquired, or opened for
\* writing) only from Probed: never from Closed without a fresh probe.
C8_NoReadyWithoutFreshProbe ==
    [][life' = "Ready" => life \in {"Probed", "Ready"}]_vars

\* C8 as amended: no encode before the geometry is probed, no device write
\* before the handle (and, in blit_image_to_fb, the mapping) is acquired; in
\* blit_image_to_fb the mapping is acquired only right after a probe through
\* the open handle; only fb_driver.blit makes the device Ready again from
\* Closed, on the stride probed once at import.
C8_Lifecycle ==
    [][/\ pc' \in {"d_map", "d_encode", "d_write"} => (info' # NoInfo /\ fd')
       /\ pc = "d_encode" => life = "Ready"
       /\ pc' \in {"f_open", "f_write"} => STRIDE.st = "loaded"
       /\ fbmem' # fbmem => (fd /\ life = "Ready" /\ (prog = "dashboard" => fbmap))
       /\ (life' = "Ready" /\ life \notin {"Probed", "Ready"})
             => (pc = "f_open" /\ life = "Closed")
       /\ (pc = "d_map" /\ life' = "Ready") => life = "Probed"]_vars

C8_Witness ==
    /\ pc = "f_write"
    /\ life = "Ready"
    /\ fbmem # Zeros(Len(fbmem))

\* C9: when a call has finished, by return or by an exception of any step, the
\* device file is closed and so is the mapping; a mapping never outlives its
\* file.
C9_Released ==
    /\ pc = "idle" => (~fd /\ ~fbmap)
    /\ fbmap => fd

C9_Witness ==
    /\ pc = "idle"
    /\ errAt = "encode"
    /\ err # "none"
    /\ ~fd
    /\ ~fbmap

\* C10 as stated: no unsupported-depth/bitfield error comes out of probing,
\* the one-time initialisation included.
C10_ProbeNeverRejects ==
    ~(err \in UnsupportedErrors /\ errAt \in {"probe", "_init_fb"})

\* C10 as amended: _get_fb_info and get_fb0_info never raise an unsupported
\* error and hand back the device's geometry for every depth and layout; on the
\* dashboard path such an error comes from the encoder only.  _init_fb is the
\* exception: it rejects every bpp other than 16 right after its probe.
C10_ProbeSeparateFromValidation ==
    /\ errAt = "probe" => err = "OSError"
    /\ (err \in UnsupportedErrors /\ prog = "dashboard") => errAt = "encode"
    /\ (err \in UnsupportedErrors /\ prog = "fb_driver")
          => (errAt = "_init_fb" /\ err = "UnsupportedDepth" /\ dev.bpp # 16)
    /\ (STRIDE.st = "failed" /\ err # "OSError") => dev.bpp # 16
    /\ pc \in {"d_map", "t_render"} => info = dev

C10_Witness ==
    /\ pc = "d_map"
    /\ info.bpp = 24
    /\ ~Supported(info)

====
